---- MODULE Spec2Model ----
(***************************************************************************)
(* Model of the three gesture-driven particle demos of the repository:     *)
(*   "logo"   src/src/App.tsx       image point cloud, working width 250   *)
(*   "tess"   src/unnamed/part_001  image point cloud, working width 200   *)
(*   "saturn" src/unnamed/part_000  procedural ring system, shader driven  *)
(*                                                                         *)
(* Numbers.  JavaScript doubles are modelled on grids:                     *)
(*   gesture scalars      multiples of 1/Scale       (1.0 is Scale)        *)
(*   landmark coordinates multiples of 1/LmDen                             *)
(*   fingertip distance   multiples of 1/DistDen                           *)
(*   particle coordinates multiples of 1/CoordDen                          *)
(*   Math.random()        multiples of 1/RandDen in [0,1)                  *)
(* A product or quotient that leaves its grid is rounded to the nearest    *)
(* grid point (RoundDiv), as IEEE arithmetic rounds to the nearest double. *)
(* Float32Array stores are modelled by F32, a binary float of MantBits     *)
(* significant bits.                                                       *)
(***************************************************************************)
EXTENDS Integers, Sequences, FiniteSets, TLC

(* ------------------------------ bounds -------------------------------- *)
Scale     == 100
LmDen     == 100
DistDen   == 1000
CoordDen  == 4
RandDen   == 8
NumSeeds  == 2
MaxFrames == 2
MaxRun    == 3
MaxCallbacks == 1
MantBits  == 8
RingDen   == 320
ParticleCount == 3

(* ---------------------------- arithmetic ------------------------------ *)
Min(a, b) == IF a < b THEN a ELSE b
Max(a, b) == IF a > b THEN a ELSE b
Abs(a) == IF a < 0 THEN 0 - a ELSE a

\* n/d rounded to the nearest integer (d > 0), halves upwards
RoundDiv(n, d) == (2 * n + d) \div (2 * d)

\* the largest k in lo..hi with k*k <= n, by bisection
RECURSIVE FloorSqrt(_, _, _)
FloorSqrt(n, lo, hi) ==
    IF lo >= hi THEN lo
    ELSE LET mid == (lo + hi + 1) \div 2
         IN  IF mid * mid <= n THEN FloorSqrt(n, mid, hi) ELSE FloorSqrt(n, lo, mid - 1)

\* Math.sqrt on naturals, rounded to the nearest integer
Sqrt(n) ==
    LET k == FloorSqrt(n, 0, Min(n, 46340))
    IN  IF n - k * k > k THEN k + 1 ELSE k

RECURSIVE Pow(_, _)
Pow(b, e) == IF e = 0 THEN 1 ELSE b * Pow(b, e - 1)

\* counters of executed frames and callbacks are kept up to a cap
Bump(c, cap) == IF c < cap THEN c + 1 ELSE c

(* ----------------------------- variants ------------------------------- *)
ImageVariants == {"logo", "tess"}
Variants == ImageVariants \cup {"saturn"}

(* ----------------------- gesture signal extractor --------------------- *)
\* a clamp that forgets the lower end
ClampUpperOnly(v, lo, hi) == Min(hi, v)

\* THREE.MathUtils.clamp(value, min, max)
Clamp(v, lo, hi) == Max(lo, Min(hi, v))

\* a map that forgets to divide by the width of the input range
MapLinearUnscaled(x, a1, a2, b1, b2) == b1 * Scale + (x - a1) * (b2 - b1) * Scale

\* THREE.MathUtils.mapLinear(x, a1, a2, b1, b2) = b1 + (x - a1)*(b2 - b1)/(a2 - a1)
\* x, a1, a2 in 1/DistDen; b1, b2 in whole units; result in 1/Scale
MapLinear(x, a1, a2, b1, b2) ==
    b1 * Scale + RoundDiv((x - a1) * (b2 - b1) * Scale, a2 - a1)

\* lower and upper end of the fingertip distance range, in thousandths
DistLoImageMilli  == 50
DistLoSaturnMilli == 30
DistHiMilli       == 200
DistLo(v) == IF v = "saturn" THEN (DistLoSaturnMilli * DistDen) \div 1000
                             ELSE (DistLoImageMilli * DistDen) \div 1000
DistHi(v) == (DistHiMilli * DistDen) \div 1000

\* a detected hand: thumb tip landmarks[4] and index tip landmarks[8]
Hand(tx, ty, ix, iy) == [thumbX |-> tx, thumbY |-> ty, indexX |-> ix, indexY |-> iy]

\* Math.sqrt(Math.pow(dx, 2) + Math.pow(dy, 2)), in 1/DistDen
Distance(h) ==
    LET dx == h.thumbX - h.indexX
        dy == h.thumbY - h.indexY
    IN  RoundDiv(Sqrt((dx * dx + dy * dy) * 10000) * DistDen, 100 * LmDen)

\* the value a present hand is mapped to: pinch closed -> 1 in the image
\* variants, hand open -> 1 in the ring variant
HandValue(v, h) ==
    IF v = "saturn"
    THEN Clamp(MapLinear(Distance(h), DistLo(v), DistHi(v), 0, 1), 0, Scale)
    ELSE Clamp(MapLinear(Distance(h), DistLo(v), DistHi(v), 1, 0), 0, Scale)

\* x += (t - x) * num/den
Lerp(x, t, num, den) == x + RoundDiv((t - x) * num, den)

\* handProgress += (targetVal - handProgress) * 0.1
SmoothHand(x, t) == Lerp(x, t, 1, 10)
\* currentZoomRef.current += (targetZoomRef.current - currentZoomRef.current) * 0.08
SmoothZoom(x, t) == Lerp(x, t, 2, 25)
\* targetZoomRef.current * 0.95
Decay(t) == RoundDiv(t * 19, 20)

(* ------------------------- source image, canvas ----------------------- *)
\* an RGBA pixel of the 2d canvas
Pixel(r, g, b, a) == [r |-> r, g |-> g, b |-> b, a |-> a]
Black     == Pixel(0, 0, 0, 255)
White     == Pixel(255, 255, 255, 255)
Cyan      == Pixel(0, 255, 255, 255)
Clear     == Pixel(0, 0, 0, 0)
Faint     == Pixel(0, 0, 0, 75)
Alpha50   == Pixel(0, 0, 0, 50)
Alpha51   == Pixel(0, 0, 0, 51)
Alpha100  == Pixel(0, 0, 0, 100)
Alpha101  == Pixel(0, 0, 0, 101)
Sum379    == Pixel(126, 127, 126, 255)
Sum380    == Pixel(127, 127, 126, 255)
Sum699    == Pixel(233, 233, 233, 255)
Sum700    == Pixel(234, 233, 233, 255)
\* a read past the end of imgData.data gives undefined for every channel
Undefined == [undefined |-> TRUE]

\* a source image: w x h pixels, row-major, the first Len(head) pixels are
\* head and every other pixel is fill
Image(w, h, head, fill) == [w |-> w, h |-> h, head |-> head, fill |-> fill]
SourcePixel(img, k) == IF k < Len(img.head) THEN img.head[k + 1] ELSE img.fill

\* const width = 250 (App.tsx) / 200 (part_001)
WidthLogo == 250
WidthTess == 200
Width(v) == IF v = "logo" THEN WidthLogo ELSE WidthTess

\* const height = img.height * (width / img.width), in 1/CoordDen
Height(v, img) == RoundDiv(CoordDen * img.h * Width(v), img.w)
\* canvas.height = height: the canvas keeps whole rows only
CanvasRows(v, img) == (img.h * Width(v)) \div img.w
\* rows visited by for (y = 0; y < height; y++)
LoopRows(v, img) == (Height(v, img) + CoordDen - 1) \div CoordDen

\* ctx.drawImage(img, 0, 0, width, height) followed by getImageData: canvas
\* pixel (x,y) samples the source pixel it covers; rows past the canvas read
\* undefined
Data(v, img, x, y) ==
    IF y >= CanvasRows(v, img) THEN Undefined
    ELSE LET sx == (x * img.w) \div Width(v)
             sy == Min((y * img.w) \div Width(v), img.h - 1)
         IN  SourcePixel(img, sy * img.w + sx)

\* getImageData(0, 0, width, height) throws IndexSizeError for a zero height
GetImageDataThrows(v, img) == CanvasRows(v, img) = 0

(* ------------------------ visibility predicate ------------------------ *)
\* alpha > cutoff: alpha > 50 (App.tsx) / alpha > 100 (part_001)
AlphaCutoffLogo == 50
AlphaCutoffTess == 100
AlphaCutoff(v) == IF v = "logo" THEN AlphaCutoffLogo ELSE AlphaCutoffTess
\* (r + g + b) < threshold: 700 (App.tsx) / 380 (part_001)
ColorThresholdLogo == 700
ColorThresholdTess == 380
ColorThreshold(v) == IF v = "logo" THEN ColorThresholdLogo ELSE ColorThresholdTess

\* a visibility test with the comparison turned round
IsVisibleInverted(px, cutoff) == IF px = Undefined THEN FALSE ELSE px.a < cutoff

\* isVisible / isNotTransparent; a comparison with undefined is false
IsVisible(px, cutoff) == IF px = Undefined THEN FALSE ELSE px.a > cutoff
\* isNotWhite / isDarkPixel; undefined + undefined is NaN, NaN < t is false
IsDark(px, threshold) ==
    IF px = Undefined THEN FALSE ELSE px.r + px.g + px.b < threshold
\* if (isVisible && isNotWhite) / if (isNotTransparent && isDarkPixel)
Qualifies(px, cutoff, threshold) == IsVisible(px, cutoff) /\ IsDark(px, threshold)

(* ------------------- image to point cloud converter ------------------- *)
\* the canvas pixels k = y * width + x for which the test of the scan loop
\* holds with the given alpha cutoff and colour threshold
QualifyingPixels(v, img, cutoff, threshold) ==
    { k \in 0..(LoopRows(v, img) * Width(v) - 1) :
        \E px \in { Data(v, img, k % Width(v), k \div Width(v)) } :
            Qualifies(px, cutoff, threshold) }

\* the pixel indexes k = y * width + x of lo..hi that qualify, in scan order
RECURSIVE Scan(_, _, _, _)
Scan(v, img, lo, hi) ==
    IF lo > hi THEN << >>
    ELSE IF lo = hi
         THEN IF \E px \in { Data(v, img, lo % Width(v), lo \div Width(v)) } :
                    Qualifies(px, AlphaCutoff(v), ColorThreshold(v))
              THEN << lo >> ELSE << >>
         ELSE LET mid == (lo + hi) \div 2
              IN  Scan(v, img, lo, mid) \o Scan(v, img, mid + 1, hi)

\* const tx = (x - width / 2) * 2
TargetX(v, x) == CoordDen * (2 * x - Width(v))
\* a ty without the flip of the y axis
TargetYUnflipped(v, img, y) == 2 * CoordDen * y - Height(v, img)

\* const ty = -(y - height / 2) * 2
TargetY(v, img, y) == Height(v, img) - 2 * CoordDen * y

\* config.dispersionStrength
dispersionStrength == 500
\* the n-th value of Math.random() since the page loaded, times RandDen
Random(seed, n) == (seed + 3 * n) % RandDen
\* a draw without the shift by 0.5: Math.random() * config.dispersionStrength * 2
DispersedOneSided(rnd) == RoundDiv(CoordDen * 2 * dispersionStrength * rnd, RandDen)

\* (Math.random() - 0.5) * config.dispersionStrength * 2
Dispersed(rnd) ==
    RoundDiv(CoordDen * 2 * dispersionStrength * rnd, RandDen)
        - CoordDen * dispersionStrength

\* the pixel indexes the scan loop accepts, in row-major order
ScanAll(v, img) == Scan(v, img, 0, LoopRows(v, img) * Width(v) - 1)

\* initialPositions after n particles: rx, ry, rz of each, in the order drawn
InitialPositions(n, seed) == [j \in 1..(3 * n) |-> Dispersed(Random(seed, j - 1))]

\* targetPositions: tx, ty, 0 of every accepted pixel
TargetPositions(v, img, q) ==
    [j \in 1..(3 * Len(q)) |->
        LET k == q[((j - 1) \div 3) + 1]
            c == (j - 1) % 3
        IN  IF c = 0 THEN TargetX(v, k % Width(v))
            ELSE IF c = 1 THEN TargetY(v, img, k \div Width(v))
            ELSE 0]

\* a converter that pushes a current position for every scanned pixel,
\* accepted or not
BuildGeometryPushOutsideIf(v, img, seed) ==
    LET q == ScanAll(v, img)
    IN  [ position        |-> InitialPositions(LoopRows(v, img) * Width(v), seed),
          targetPosition  |-> TargetPositions(v, img, q),
          initialPosition |-> InitialPositions(Len(q), seed) ]

\* the three coordinate arrays of the geometry built by the load callback
BuildGeometry(v, img, seed) ==
    LET q == ScanAll(v, img)
    IN  [ position        |-> InitialPositions(Len(q), seed),
          targetPosition  |-> TargetPositions(v, img, q),
          initialPosition |-> InitialPositions(Len(q), seed) ]

\* a frame that forgets the initial[i] term
BlendNoOffset(geo, progress) ==
    [geo EXCEPT !.position =
        [i \in 1..Len(geo.position) |->
            RoundDiv((geo.targetPosition[i] - geo.initialPosition[i]) * progress,
                     Scale)]]

\* positions[i] = initial[i] + (target[i] - initial[i]) * handProgress
Blend(geo, progress) ==
    [geo EXCEPT !.position =
        [i \in 1..Len(geo.position) |->
            geo.initialPosition[i]
              + RoundDiv((geo.targetPosition[i] - geo.initialPosition[i]) * progress,
                         Scale)]]

(* --------------------------- Float32Array ----------------------------- *)
\* stored floats are integers in units of 1/FUnit
FUnit == Pow(2, MantBits + 2)

\* the spacing, in 1/FUnit, of the floats around n/d >= 0: 2^(e - MantBits + 1)
\* for 2^e <= n/d < 2^(e+1); below 1/8 the spacing of [1/8, 1/4) is kept
RECURSIVE Ulp(_, _, _)
Ulp(n, d, step) ==
    IF n * FUnit < 2 * step * Pow(2, MantBits - 1) * d THEN step
    ELSE Ulp(n, d, 2 * step)

\* the Float32Array element written for the double n/d (d > 0)
F32(n, d) ==
    LET a == Abs(n)
        u == Ulp(a, d, 1)
        m == RoundDiv(a * FUnit, d * u) * u
    IN  IF n < 0 THEN 0 - m ELSE m

\* the element written for the double 5.0 / Math.sqrt(n/d)
F32Speed(n, d) ==
    LET u == IF n > 25 * d THEN 4 ELSE 8   \* the result is in [1/2,1) or in [1,2)
        a == 100 * (FUnit \div u) * (FUnit \div u)
        \* (a * d) \div n, without forming a * d
        q == (a \div n) * d + ((a % n) * d) \div n
        m == (FloorSqrt(q, 0, 4 * FUnit) + 1) \div 2
    IN  m * u

(* -------------------- orbital particle field generator ---------------- *)
\* Math.cos and Math.sin of a quarter-turn count
Cos4(a) == IF a % 4 = 0 THEN 1 ELSE IF a % 4 = 2 THEN 0 - 1 ELSE 0
Sin4(a) == IF a % 4 = 1 THEN 1 ELSE IF a % 4 = 3 THEN 0 - 1 ELSE 0

\* the values of Math.random() one particle consumes:
\*   a  angle draw (theta / angle), in quarter turns
\*   u  inclination draw, in quarters: phi = acos(2u - 1)
\*   k  ring radius draw, in 1/RingDen
\*   c  gap draw, in fifths
\*   j  jitter draw (sphere radius, y, size, noise direction), in 1/RandDen
Draw(a, u, k, c, j) == [a |-> a, u |-> u, k |-> k, c |-> c, j |-> j]

\* a partition at one half instead of three tenths
IsBodyHalf(i) == 2 * i < ParticleCount

\* if (i < particleCount * 0.3)
IsBody(i) == 10 * i < 3 * ParticleCount

\* r = 25 + Math.random() * 40, as the fraction RingRadius / RingDen
SampledRadius(k) == 25 * RingDen + 40 * k
\* a push by 3 instead of 5
PushedRadiusBy3(rn, c) ==
    IF rn > 48 * RingDen /\ rn < 52 * RingDen /\ c > 1 THEN rn + 3 * RingDen ELSE rn
\* if (r > 48 && r < 52) { if (Math.random() > 0.2) r += 5; }
PushedRadius(rn, c) ==
    IF rn > 48 * RingDen /\ rn < 52 * RingDen /\ c > 1 THEN rn + 5 * RingDen ELSE rn
RingRadius(d) == PushedRadius(SampledRadius(d.k), d.c)

\* speed = 5.0 / Math.sqrt(r); speeds[i] = speed
RingSpeed(rn) == F32Speed(rn, RingDen)

\* a radii[i] that keeps the radius sampled before the gap push
StoredRadiusBeforePush(d) == F32(SampledRadius(d.k), RingDen)

\* radii[i] = r
StoredRadius(d) == F32(RingRadius(d), RingDen)

\* one iteration of the generator loop: the attributes stored for particle i
Particle(i, d) ==
    IF IsBody(i)
    THEN LET radiusN == 15 * RandDen + d.j        \* 15 + Math.random() * 1
             cosPhi2 == d.u - 2                   \* 2 * cos(phi) = (2u - 1) * 2, u in quarters
             sinPhi  == Sqrt(10000 * (4 - cosPhi2 * cosPhi2))   \* 200 * sin(phi)
             zN      == radiusN * cosPhi2         \* z * 2 * RandDen
         IN  [ body   |-> TRUE,
               x      |-> F32(radiusN * sinPhi * Cos4(d.a), 200 * RandDen),
               y      |-> F32(radiusN * sinPhi * Sin4(d.a), 200 * RandDen),
               z      |-> F32(zN, 2 * RandDen),
               size   |-> F32(5 * d.j + RandDen, 2 * RandDen),  \* random * 2.5 + 0.5
               speed  |-> 0,
               angle  |-> 0,
               radius |-> 0,
               color  |-> IF Abs(zN) < 3 * 2 * RandDen THEN "#D6C298"
                          ELSE IF Abs(zN) > 13 * 2 * RandDen THEN "#8C8068"
                          ELSE "#E0C895",
               random |-> F32(2 * d.j - RandDen, 2 * RandDen) ]
    ELSE LET rn == RingRadius(d)
         IN  [ body   |-> FALSE,
               x      |-> F32(Cos4(d.a) * rn, RingDen),
               y      |-> F32(2 * d.j - RandDen, 4 * RandDen),  \* (random - 0.5) * 0.5
               z      |-> F32(Sin4(d.a) * rn, RingDen),
               size   |-> F32(15 * d.j + 2 * RandDen, 10 * RandDen), \* random * 1.5 + 0.2
               speed  |-> RingSpeed(rn),
               angle  |-> F32(157 * d.a, 100),                  \* random * Math.PI * 2
               radius |-> StoredRadius(d),
               \* t = (r - 25) / 40, the weight of colorRingOuter
               color  |-> F32(rn - 25 * RingDen, 40 * RingDen),
               random |-> F32(2 * d.j - RandDen, 2 * RandDen) ]

\* the attribute arrays filled from the per-particle values p[1..n]
Arrays(p) ==
    LET n == ParticleCount
    IN  [ position |-> [j \in 1..(3 * n) |->
                          LET q == p[((j - 1) \div 3) + 1]
                          IN  IF (j - 1) % 3 = 0 THEN q.x
                              ELSE IF (j - 1) % 3 = 1 THEN q.y ELSE q.z],
          aSize    |-> [i \in 1..n |-> p[i].size],
          aSpeed   |-> [i \in 1..n |-> p[i].speed],
          aAngle   |-> [i \in 1..n |-> p[i].angle],
          aRadius  |-> [i \in 1..n |-> p[i].radius],
          aRandom  |-> [i \in 1..n |-> p[i].random],
          aColor   |-> [i \in 1..n |-> p[i].color] ]

\* the geometry built by createSaturnSystem from the draws of its particles
\* (draws[i + 1] for particle i); the loop runs once, then the arrays are read
CreateSaturnSystem(draws) ==
    Arrays([i \in 1..ParticleCount |-> Particle(i - 1, draws[i])] @@ << >>)

(* ------------------------------- state -------------------------------- *)
VARIABLES
    variant,        \* which of the three programs runs
    image,          \* the image asset behind imageUrl (image variants)
    seed,           \* the state of Math.random() when the page loaded
    draws,          \* the Math.random() values createSaturnSystem consumes
    libs,           \* window.Hands && window.Camera
    loader,         \* TextureLoader.load: "idle", "pending", "loaded", "failed"
    particlesMesh,  \* particlesMesh, Undefined before it is built: the attribute
                    \* arrays (part_000) / the progress of the frame that last
                    \* wrote the position array, if any (App.tsx, part_001)
    sceneMeshes,    \* the number of Points objects in scene
    material,       \* color and size of the PointsMaterial, Undefined without mesh
    config,         \* the lil-gui config object
    rotationY,      \* particlesMesh.rotation.y, in per-frame increments
    uTime,          \* uniforms.uTime.value, in increments of 0.005
    uZoom,          \* uniforms.uZoom.value
    handProgress,   \* let handProgress (image variants)
    targetVal,      \* the targetVal of the latest callback with a hand (image variants)
    targetZoom,     \* targetZoomRef.current
    currentZoom,    \* currentZoomRef.current
    hands,          \* let hands: "undefined", "open", "closed"
    cameraUtils,    \* let cameraUtils: "undefined", "created", "stopped"
    startPromise,   \* cameraUtils.start(): "none", "pending", "resolved", "rejected"
    loading,        \* the loading React state
    raf,            \* a frame requested by requestAnimationFrame is pending
    animationId,    \* let animationId, as the parity of the handle requestAnimationFrame returned
    gui,            \* let gui: "undefined", "open", "destroyed"
    console,        \* the messages the program wrote to the console
    viewport,       \* window.innerWidth, window.innerHeight
    view,           \* camera.aspect as a width:height pair, and the renderer size
    unmounted,      \* the effect cleanup has run
    frames,         \* executed calls of animate, up to MaxFrames
    renders,        \* calls of renderer.render, up to MaxFrames
    callbacks,      \* executed detection callbacks, up to MaxCallbacks
    trackingLost,   \* the detector will report no hand from now on
    noHandRun,      \* callbacks without a hand since the last one with a hand, up to MaxRun
    runStart        \* the target value when that run began

vars == << variant, image, seed, draws, libs, loader, particlesMesh, sceneMeshes,
           material, config, rotationY, uTime, uZoom, handProgress, targetVal,
           targetZoom, currentZoom, hands, cameraUtils, startPromise, loading,
           raf, animationId, gui, console, viewport, view, unmounted, frames, renders,
           callbacks, trackingLost, noHandRun, runStart >>

inputVars   == << variant, image, seed, draws, libs >>
gestureVars == << handProgress, targetVal, targetZoom, currentZoom >>
meshVars    == << particlesMesh, sceneMeshes, material, rotationY >>
trackVars   == << hands, cameraUtils, startPromise >>
ghostVars   == << trackingLost, noHandRun, runStart >>

\* the smoothed scalar the renderer consumes, and the value it tracks
Progress == IF variant = "saturn" THEN currentZoom ELSE handProgress
Target   == IF variant = "saturn" THEN targetZoom ELSE targetVal
HasMesh  == particlesMesh # Undefined

\* particlesMesh of an image variant as the load callback leaves it, and after
\* a frame has written its position array with progress p
Unblended  == [blended |-> FALSE, progress |-> 0]
Blended(p) == [blended |-> TRUE, progress |-> p]

\* the coordinate arrays of particlesMesh.geometry in an image variant:
\* initialPosition and targetPosition are written by the load callback alone,
\* and a frame writes position from these two and its progress
Geometry ==
    IF particlesMesh.blended
    THEN Blend(BuildGeometry(variant, image, seed), particlesMesh.progress)
    ELSE BuildGeometry(variant, image, seed)

(* ------------------------------ inputs -------------------------------- *)
Seeds == 0..(NumSeeds - 1)

\* fingertip pairs at distances 0, 0.03, 0.05, 0.1, 0.2 and 0.85
HandInputs ==
    { Hand(40, 40, 40, 40), Hand(40, 40, 43, 40), Hand(40, 40, 43, 44),
      Hand(40, 40, 46, 48), Hand(40, 40, 52, 56), Hand(40, 40, 100, 100) }

\* the hands of a whole session: pinched and half open
SessionHands == { Hand(40, 40, 43, 44), Hand(40, 40, 46, 48) }

\* assets one row high at the working width: nothing qualifies / a few
\* leading pixels qualify; an asset whose canvas is one and a half rows
\* high; an asset whose canvas has no row
EmptyImage(v)  == Image(Width(v), 1, << >>, Clear)
DotsImage(v)   == Image(Width(v), 1, << Black, White, Cyan, Faint >>, Clear)
HalfRowImage(v) == Image(2 * Width(v), 3, << Sum379, Clear, Sum699 >>, Clear)
FlatImage(v)   == Image(2 * Width(v), 1, << >>, Black)
SessionImages(v) == { EmptyImage(v), DotsImage(v), HalfRowImage(v), FlatImage(v) }

\* window sizes before and after a resize
Viewports == { << 800, 600 >>, << 1920, 1080 >> }
\* values the panel can set
PanelColors == { "#ff0000" }
PanelSizes  == { 10 }             \* particleSize 5.0, in halves

DefaultConfig == [ particleColor |-> "#00ffff", particleSize |-> 4 ]

\* draws of the ring system of a session
SessionDraws ==
    { [i \in 1..ParticleCount |-> Draw(i, 1, 100 + 50 * i, c, 3)] : c \in {0, 2} }

(* --------------------------- construction ----------------------------- *)
\* renderer.render(scene, camera): the calls one frame makes
RenderCalls == 1

\* The state of the effect with inputs v, img, sd, dr, lb in window vp, the
\* particle geometry being mesh, the image load ld and the smoothed scalar hp.
\* started: initHandTracking and the first call of animate have run. A
\* positive hp is the work of detection callbacks: the camera has started,
\* and the last callback saw an open hand.
Start(v, img, sd, dr, lb, vp, mesh, ld, hp, started) ==
    /\ variant = v /\ image = img /\ seed = sd /\ draws = dr /\ libs = lb
    /\ loader = ld
    /\ particlesMesh = mesh
    /\ sceneMeshes = IF mesh = Undefined THEN 0 ELSE 1
    /\ material = IF mesh # Undefined /\ v \in ImageVariants
                  THEN [color |-> DefaultConfig.particleColor,
                        size  |-> DefaultConfig.particleSize]
                  ELSE Undefined
    /\ config = DefaultConfig
    /\ rotationY = IF started /\ v = "saturn" THEN 1 ELSE 0
    /\ uTime = IF started /\ v = "saturn" THEN 1 ELSE 0
    /\ uZoom = IF started /\ v = "saturn" THEN SmoothZoom(0, 0) ELSE 0
    /\ handProgress = hp /\ targetVal = 0
    /\ targetZoom = 0
    /\ currentZoom = IF started /\ v = "saturn" THEN SmoothZoom(0, 0) ELSE 0
    /\ hands = IF started /\ lb THEN "open" ELSE "undefined"
    /\ cameraUtils = IF started /\ lb THEN "created" ELSE "undefined"
    /\ startPromise = IF started /\ lb THEN (IF hp > 0 THEN "resolved" ELSE "pending")
                      ELSE "none"
    /\ loading = ~(started /\ lb /\ hp > 0)
    /\ raf = started
    /\ animationId = started
    /\ gui = IF v = "saturn" THEN "undefined" ELSE "open"
    /\ console = (IF v = "logo" THEN {"log: loading image"} ELSE {})
                 \cup (IF started /\ ~lb THEN {"error: MediaPipe not loaded"} ELSE {})
                 \cup (IF v = "logo" /\ ld = "loaded" THEN {"log: image loaded"} ELSE {})
                 \cup (IF v \in ImageVariants /\ started /\ lb /\ hp > 0
                       THEN {"log: camera started"} ELSE {})
    /\ viewport = vp /\ view = [aspect |-> vp, size |-> vp]
    /\ unmounted = FALSE
    /\ frames = (IF started THEN 1 ELSE 0)
    /\ renders = (IF started THEN RenderCalls ELSE 0)
    /\ callbacks = (IF hp > 0 THEN MaxCallbacks ELSE 0)
    /\ trackingLost = FALSE /\ noHandRun = 0 /\ runStart = 0

NoImage == Image(1, 1, << >>, Clear)
NoDraws == << >>

\* the state when the effect body has returned: initThree, the generator or
\* the start of the image load, initGUI, initHandTracking and the first call
\* of animate have run
Boot(v, img, sd, dr, lb) ==
    Start(v, img, sd, dr, lb, << 800, 600 >>,
          IF v = "saturn" THEN CreateSaturnSystem(dr) ELSE Undefined,
          IF v = "saturn" THEN "idle" ELSE "pending",
          0, TRUE)

Init ==
    \E v \in Variants, lb \in BOOLEAN :
        \/ /\ v \in ImageVariants
           /\ \E img \in SessionImages(v), sd \in Seeds : Boot(v, img, sd, NoDraws, lb)
        \/ /\ v = "saturn"
           /\ \E dr \in SessionDraws : Boot(v, NoImage, 0, dr, lb)

(* ----------------------------- image load ----------------------------- *)
\* the onLoad callback of loader.load
ImageLoaded ==
    /\ loader = "pending"
    /\ loader' = "loaded"
    /\ console' = IF variant = "logo" THEN console \cup {"log: image loaded"} ELSE console
    /\ IF GetImageDataThrows(variant, image)
       THEN UNCHANGED meshVars
       ELSE /\ particlesMesh' = Unblended
            /\ sceneMeshes' = (IF HasMesh THEN sceneMeshes - 1 ELSE sceneMeshes) + 1
            /\ material' = [color |-> config.particleColor, size |-> config.particleSize]
            /\ rotationY' = 0
    /\ UNCHANGED << inputVars, gestureVars, trackVars, ghostVars, config, uTime, uZoom,
                    loading, raf, animationId, gui, viewport, view, unmounted, frames, renders,
                    callbacks >>

\* the onError callback of loader.load: App.tsx passes one, part_001 does not
ImageError ==
    /\ loader = "pending"
    /\ loader' = "failed"
    /\ console' = IF variant = "logo" THEN console \cup {"error: image load failed"}
                  ELSE console
    /\ UNCHANGED << inputVars, gestureVars, meshVars, trackVars, ghostVars, config,
                    uTime, uZoom, loading, raf, animationId, gui, viewport, view, unmounted,
                    frames, renders, callbacks >>

(* ---------------------------- camera start ---------------------------- *)
\* cameraUtils.start() fulfils: .then(...)
CameraStarted ==
    /\ startPromise = "pending"
    /\ startPromise' = "resolved"
    /\ loading' = FALSE
    /\ console' = IF variant \in ImageVariants
                  THEN console \cup {"log: camera started"} ELSE console
    /\ UNCHANGED << inputVars, gestureVars, meshVars, ghostVars, hands, cameraUtils,
                    loader, config, uTime, uZoom, raf, animationId, gui, viewport, view, unmounted,
                    frames, renders, callbacks >>

\* cameraUtils.start() rejects: .catch(...) in App.tsx and part_001, no
\* handler in part_000
CameraFailed ==
    /\ startPromise = "pending"
    /\ startPromise' = "rejected"
    /\ console' = IF variant \in ImageVariants
                  THEN console \cup {"error: camera start failed"} ELSE console
    /\ UNCHANGED << inputVars, gestureVars, meshVars, ghostVars, hands, cameraUtils,
                    loader, config, uTime, uZoom, loading, raf, animationId, gui, viewport, view,
                    unmounted, frames, renders, callbacks >>

\* the camera delivers frames to hands.send, which answers with a callback
Tracking ==
    hands = "open" /\ cameraUtils = "created" /\ startPromise = "resolved"

(* ------------------------- detection callback ------------------------- *)
\* hands.onResults with results.multiHandLandmarks[0] = h
OnResultsHand(h) ==
    /\ Tracking /\ ~trackingLost
    /\ IF variant = "saturn"
       THEN /\ targetZoom' = HandValue(variant, h)
            /\ UNCHANGED << handProgress, targetVal, currentZoom >>
       ELSE /\ targetVal' = HandValue(variant, h)
            /\ handProgress' = SmoothHand(handProgress, targetVal')
            /\ UNCHANGED << targetZoom, currentZoom >>
    /\ callbacks' = Bump(callbacks, MaxCallbacks)
    /\ noHandRun' = 0
    /\ runStart' = IF variant = "saturn" THEN targetZoom' ELSE targetVal'
    /\ UNCHANGED << inputVars, meshVars, trackVars, trackingLost, loader, config, uTime,
                    uZoom, loading, raf, animationId, gui, console, viewport, view, unmounted,
                    frames, renders >>

\* hands.onResults without landmarks: part_000 decays the target, App.tsx
\* and part_001 have no else branch
OnResultsNoHand ==
    /\ Tracking
    /\ IF variant = "saturn"
       THEN targetZoom' = Decay(targetZoom)
       ELSE UNCHANGED targetZoom
    /\ callbacks' = Bump(callbacks, MaxCallbacks)
    /\ noHandRun' = Bump(noHandRun, MaxRun)
    /\ UNCHANGED << inputVars, meshVars, trackVars, trackingLost, runStart, handProgress,
                    targetVal, currentZoom, loader, config, uTime, uZoom, loading, raf, animationId,
                    gui, console, viewport, view, unmounted, frames, renders >>

OnResults(hs) == OnResultsNoHand \/ \E h \in hs : OnResultsHand(h)

\* the hand leaves the camera's view for good
LoseTracking ==
    /\ Tracking /\ ~trackingLost
    /\ trackingLost' = TRUE
    /\ UNCHANGED << inputVars, gestureVars, meshVars, trackVars, noHandRun, runStart,
                    loader, config, uTime, uZoom, loading, raf, animationId, gui, console, viewport,
                    view, unmounted, frames, renders, callbacks >>

(* --------------------------- animation frame -------------------------- *)
\* an animate without the test if (particlesMesh)
AnimateImageUnguarded ==
    /\ variant \in ImageVariants
    /\ rotationY' = Bump(rotationY, MaxFrames)
    /\ particlesMesh' = Blended(handProgress)
    /\ UNCHANGED << gestureVars, uTime, uZoom >>

\* animate of App.tsx and part_001
AnimateImage ==
    /\ variant \in ImageVariants
    /\ IF HasMesh
       THEN /\ rotationY' = Bump(rotationY, MaxFrames)
            /\ particlesMesh' = Blended(handProgress)
       ELSE UNCHANGED << particlesMesh, rotationY >>
    /\ UNCHANGED << gestureVars, uTime, uZoom >>

\* animate of part_000
AnimateSaturn ==
    /\ variant = "saturn"
    /\ currentZoom' = SmoothZoom(currentZoom, targetZoom)
    /\ uTime' = Bump(uTime, MaxFrames)
    /\ uZoom' = currentZoom'
    /\ rotationY' = IF HasMesh THEN Bump(rotationY, MaxFrames) ELSE rotationY
    /\ UNCHANGED << handProgress, targetVal, targetZoom, particlesMesh >>

Animate ==
    /\ raf
    /\ raf' = TRUE
    /\ animationId' = ~animationId
    /\ AnimateImage \/ AnimateSaturn
    /\ frames' = Bump(frames, MaxFrames)
    /\ renders' = Min(renders + RenderCalls, MaxFrames)
    /\ UNCHANGED << inputVars, trackVars, ghostVars, sceneMeshes, material, loader,
                    config, loading, gui, console, viewport, view, unmounted,
                    callbacks >>

(* ------------------------------- panel -------------------------------- *)
\* gui.addColor(config, 'particleColor').onChange
ChangeColor(c) ==
    /\ gui = "open"
    /\ config' = [config EXCEPT !.particleColor = c]
    /\ material' = IF HasMesh THEN [material EXCEPT !.color = c] ELSE material
    /\ UNCHANGED << inputVars, gestureVars, trackVars, ghostVars, particlesMesh,
                    sceneMeshes, rotationY, loader, uTime, uZoom, loading, raf, animationId, gui,
                    console, viewport, view, unmounted, frames, renders, callbacks >>

\* gui.add(config, 'particleSize', 0.5, 5).onChange
ChangeSize(z) ==
    /\ gui = "open"
    /\ config' = [config EXCEPT !.particleSize = z]
    /\ material' = IF HasMesh THEN [material EXCEPT !.size = z] ELSE material
    /\ UNCHANGED << inputVars, gestureVars, trackVars, ghostVars, particlesMesh,
                    sceneMeshes, rotationY, loader, uTime, uZoom, loading, raf, animationId, gui,
                    console, viewport, view, unmounted, frames, renders, callbacks >>

(* ------------------------------- resize ------------------------------- *)
\* handleResize, for a window that became vp
HandleResize(vp) ==
    /\ ~unmounted
    /\ viewport' = vp
    /\ view' = [aspect |-> vp, size |-> vp]
    /\ UNCHANGED << inputVars, gestureVars, meshVars, trackVars, ghostVars, loader,
                    config, uTime, uZoom, loading, raf, animationId, gui, console,
                    unmounted, frames, renders, callbacks >>

(* ------------------------------ teardown ------------------------------ *)
\* a cleanup that forgets cancelAnimationFrame(animationId)
CleanupWithoutCancel ==
    /\ ~unmounted
    /\ unmounted' = TRUE
    /\ gui' = IF gui = "open" THEN "destroyed" ELSE gui
    /\ hands' = IF hands = "open" THEN "closed" ELSE hands
    /\ cameraUtils' = IF cameraUtils = "created" THEN "stopped" ELSE cameraUtils
    /\ UNCHANGED << inputVars, gestureVars, meshVars, ghostVars, startPromise, loader,
                    config, uTime, uZoom, loading, console, viewport, view, frames,
                    renders, callbacks, raf, animationId >>

\* the cleanup function the effect returns
Cleanup ==
    /\ ~unmounted
    /\ unmounted' = TRUE
    /\ raf' = FALSE
    /\ UNCHANGED animationId
    /\ gui' = IF gui = "open" THEN "destroyed" ELSE gui
    /\ hands' = IF hands = "open" THEN "closed" ELSE hands
    /\ cameraUtils' = IF cameraUtils = "created" THEN "stopped" ELSE cameraUtils
    /\ UNCHANGED << inputVars, gestureVars, meshVars, ghostVars, startPromise, loader,
                    config, uTime, uZoom, loading, console, viewport, view, frames,
                    renders, callbacks >>

(* --------------------------- specifications --------------------------- *)
\* a whole session, the detection callbacks counted up to MaxCallbacks
Next ==
    \/ ImageLoaded
    \/ ImageError
    \/ CameraStarted
    \/ CameraFailed
    \/ callbacks < MaxCallbacks /\ OnResults(SessionHands)
    \/ Animate
    \/ \E c \in PanelColors : ChangeColor(c)
    \/ \E z \in PanelSizes : ChangeSize(z)
    \/ \E vp \in Viewports : HandleResize(vp)
    \/ Cleanup

Spec == Init /\ [][Next]_vars

\* the gesture pipeline alone: detection callbacks with every hand of
\* HandInputs and render frames in any order, while the image is loading
InitGesture ==
    \E v \in Variants :
        Boot(v, IF v = "saturn" THEN NoImage ELSE EmptyImage(v), 0,
             IF v = "saturn" THEN CHOOSE dr \in SessionDraws : TRUE ELSE NoDraws, TRUE)

NextGesture ==
    \/ CameraStarted
    \/ OnResults(HandInputs)
    \/ Animate

SpecGesture == InitGesture /\ [][NextGesture]_vars

\* the same with tracking that can be lost for good; the camera keeps
\* delivering frames and the display keeps requesting repaints
NextLive ==
    \/ NextGesture
    \/ LoseTracking

SpecLive ==
    /\ InitGesture /\ [][NextLive]_vars
    /\ WF_vars(CameraStarted) /\ WF_vars(OnResultsNoHand) /\ WF_vars(Animate)

\* the converter alone: every asset of ConvertImages is loaded or fails
BlackSquare == Image(10, 10, << >>, Black)
Palette == { Black, White, Cyan, Clear, Faint, Alpha50, Alpha51, Alpha100, Alpha101,
             Sum379, Sum380, Sum699, Sum700 }
ConvertImages(v) ==
    { Image(Width(v), 1, << p1, p2 >>, Clear) : p1 \in Palette, p2 \in { Black, Faint } }
        \cup SessionImages(v)
        \cup (IF v = "tess" THEN { BlackSquare } ELSE {})

InitConvert ==
    \E v \in ImageVariants :
        \E img \in ConvertImages(v), sd \in Seeds :
            /\ img = BlackSquare => sd = 0
            /\ Start(v, img, sd, NoDraws, TRUE, << 800, 600 >>, Undefined, "pending", 0, TRUE)

NextConvert ==
    \/ ImageLoaded
    \/ ImageError

SpecConvert == InitConvert /\ [][NextConvert]_vars

\* the gesture map alone: detection callbacks with a hand at each distance
\* of FineDistances (in hundredths at the scale of the landmarks), in any order
FineDistances == { 0, 2, 3, 4, 5, 8, 10, 15, 19, 20, 21, 85 }
FineHands == { Hand(40, 40, 40 + k, 40) : k \in FineDistances }

InitMap ==
    \E v \in Variants :
        Boot(v, IF v = "saturn" THEN NoImage ELSE EmptyImage(v), 0,
             IF v = "saturn" THEN CHOOSE dr \in SessionDraws : TRUE ELSE NoDraws, TRUE)

NextMap ==
    \/ CameraStarted
    \/ \E h \in FineHands : OnResultsHand(h)

SpecMap == InitMap /\ [][NextMap]_vars

\* the geometry alone: the load callback, detection callbacks, frames, the
\* size control of the panel and resizes, in any order
InitGeometry ==
    \E v \in ImageVariants :
        \E img \in SessionImages(v), sd \in Seeds : Boot(v, img, sd, NoDraws, TRUE)

NextGeometry ==
    \/ ImageLoaded
    \/ CameraStarted
    \/ callbacks < MaxCallbacks /\ OnResults(SessionHands)
    \/ Animate
    \/ \E z \in PanelSizes : ChangeSize(z)
    \/ \E vp \in Viewports : HandleResize(vp)

SpecGeometry == InitGeometry /\ [][NextGeometry]_vars

\* the frame alone: animate applied to a built geometry for every value of
\* handProgress
InitBlend ==
    \E v \in ImageVariants :
        \E img \in { DotsImage(v), HalfRowImage(v) }, sd \in Seeds :
            \E hp \in 0..Scale :
                Start(v, img, sd, NoDraws, TRUE, << 800, 600 >>,
                      Unblended, "loaded", hp, TRUE)

NextBlend == Animate

SpecBlend == InitBlend /\ [][NextBlend]_vars

\* the generator alone: createSaturnSystem applied to the draws of two ring
\* particles, the first anywhere in [25,65) and pushed or not, the second on
\* a whole radius
CoarseDraws == { k \in 0..(RingDen - 1) : k % 8 = 0 }
RingTrial(k1, c1, k2) ==
    [i \in 1..ParticleCount |->
        IF IsBody(i - 1) THEN Draw(1, 1, 0, 0, 3)
        ELSE IF i = ParticleCount THEN Draw(0, 0, k2, 1, 5)
        ELSE Draw(1, 0, k1, c1, 3)]
RingTrials ==
    { RingTrial(k1, c1, k2) : k1 \in 0..(RingDen - 1), c1 \in {1, 2}, k2 \in CoarseDraws }

InitSaturn ==
    \E dr \in RingTrials :
        Start("saturn", NoImage, 0, dr, TRUE, << 800, 600 >>, Undefined, "idle", 0, FALSE)

\* createSaturnSystem
CreateSaturn ==
    /\ variant = "saturn" /\ ~HasMesh /\ frames = 0
    /\ particlesMesh' = CreateSaturnSystem(draws)
    /\ sceneMeshes' = sceneMeshes + 1
    /\ UNCHANGED << inputVars, gestureVars, trackVars, ghostVars, material, rotationY,
                    loader, config, uTime, uZoom, loading, raf, animationId, gui, console, viewport,
                    view, unmounted, frames, renders, callbacks >>

NextSaturn == CreateSaturn

SpecSaturn == InitSaturn /\ [][NextSaturn]_vars

(* ============================== claims ================================ *)

\* C1: in every variant the smoothed gesture scalar the renderer consumes
\* (handProgress, currentZoom and the uZoom uniform) and the target it tracks
\* stay within [0,1], starting from 0, whatever fingertip distance is
\* reported and however detection callbacks and render frames interleave.
C1_GestureInUnitRange ==
    /\ Progress \in 0..Scale
    /\ Target \in 0..Scale
    /\ uZoom \in 0..Scale

\* C1 witness: callbacks with a saturating hand and frames have driven the
\* scalar from 0 to within a tenth of 1, the target being 1
C1_Witness ==
    /\ Target = Scale
    /\ Progress >= Scale - Scale \div 10
    /\ callbacks = MaxCallbacks /\ frames = MaxFrames

\* C2: for every source image the geometry built by createParticlesFromImage
\* has position, initialPosition and targetPosition arrays of one length,
\* three times the number of qualifying pixels, and no frame, panel change or
\* resize changes these lengths.
C2_EqualLengths ==
    (variant \in ImageVariants /\ HasMesh) =>
        LET n == 3 * Cardinality(QualifyingPixels(variant, image, AlphaCutoff(variant),
                                                  ColorThreshold(variant)))
            geo == Geometry
        IN  /\ Len(geo.position) = n
            /\ Len(geo.initialPosition) = n
            /\ Len(geo.targetPosition) = n

\* C2 witness: a non-empty geometry that frames have blended, after a panel
\* change of the size and a resize of the window
C2_Witness ==
    /\ variant \in ImageVariants /\ HasMesh
    /\ Len(Geometry.position) > 0
    /\ rotationY = MaxFrames
    /\ material.size # DefaultConfig.particleSize
    /\ viewport # << 800, 600 >>

\* C3: after a frame executed with progress p every current coordinate is
\* initial[i] + (target[i] - initial[i]) * p; with p = 0 it equals its initial
\* coordinate and with p = 1 its target coordinate.
C3_BlendEndpoints ==
    (variant \in ImageVariants /\ HasMesh /\ rotationY > 0) =>
        LET geo == Geometry
        IN  /\ \A i \in 1..Len(geo.position) :
                  geo.position[i] = geo.initialPosition[i]
                      + RoundDiv((geo.targetPosition[i] - geo.initialPosition[i])
                                     * handProgress, Scale)
            /\ handProgress = 0 => geo.position = geo.initialPosition
            /\ handProgress = Scale => geo.position = geo.targetPosition

\* C3 witness: a frame executed with progress 1 has moved every particle
\* from its dispersed coordinate onto its target
C3_Witness ==
    /\ variant \in ImageVariants /\ HasMesh /\ rotationY > 0
    /\ handProgress = Scale
    /\ LET geo == Geometry
       IN  /\ Len(geo.position) > 0
           /\ geo.position = geo.targetPosition
           /\ geo.position # geo.initialPosition

\* C4 (as claimed): a callback without a hand multiplies the target by 0.95
\* instead of holding it: n such callbacks in a row after a target of 1.0
\* leave at most 0.95^n (up to the rounding of n products), never less than 0.
C4_NoHandDecays ==
    (noHandRun > 0 /\ runStart = Scale) =>
        /\ Target >= 0
        /\ 2 * Target * Pow(20, noHandRun)
              <= 2 * Scale * Pow(19, noHandRun) + noHandRun * Pow(20, noHandRun)

\* the same bound in the ring variant alone, where the else branch exists
C4_NoHandDecaysSaturn == variant = "saturn" => C4_NoHandDecays

\* a progress value the scalar has to fall below once tracking is lost
ProgressFloor == Scale \div 5

\* C5 (as claimed): in every variant, once every detection callback reports
\* no hand, the progress the render loop reads does not stay at its last
\* positive value: with callbacks and frames scheduled fairly it falls to
\* ProgressFloor or below.
C5_LostTrackingDecays == trackingLost ~> (Progress <= ProgressFloor)

\* the same in the ring variant alone
C5_LostTrackingDecaysSaturn ==
    (variant = "saturn" /\ trackingLost) ~> (Progress <= ProgressFloor)

\* the indices of the ring particles in the attribute arrays
RingParticles == { i \in 1..ParticleCount : ~IsBody(i - 1) }

\* C6 (as claimed): of two ring particles produced by createSaturnSystem with
\* stored radii r1 < r2, the first has the strictly greater stored speed.
C6_KeplerStrict ==
    (variant = "saturn" /\ HasMesh) =>
        \A i, j \in RingParticles :
            particlesMesh.aRadius[i] < particlesMesh.aRadius[j]
                => particlesMesh.aSpeed[i] > particlesMesh.aSpeed[j]

\* C6 (amended): of two ring particles with stored radii r1 < r2 the first
\* has a stored speed that is greater or equal: the Float32Array rounds the
\* speeds of neighbouring radii to the same element, never past each other.
C6_KeplerNonIncreasing ==
    (variant = "saturn" /\ HasMesh) =>
        \A i, j \in RingParticles :
            particlesMesh.aRadius[i] < particlesMesh.aRadius[j]
                => particlesMesh.aSpeed[i] >= particlesMesh.aSpeed[j]

\* C6 witness: a generated field with two ring particles, the inner one
\* strictly faster, the outer one moved out of the gap by the push
C6_Witness ==
    /\ variant = "saturn" /\ HasMesh
    /\ \E i, j \in RingParticles :
          /\ particlesMesh.aRadius[i] < particlesMesh.aRadius[j]
          /\ particlesMesh.aSpeed[i] > particlesMesh.aSpeed[j]
          /\ RingRadius(draws[j]) # SampledRadius(draws[j].k)

\* alpha cutoffs compared, the ones of the two programs among them
AlphaCutoffs == { 0, 20, AlphaCutoffLogo, 75, AlphaCutoffTess, 200, 255 }

\* the pixels of the loaded image accepted at each cutoff of AlphaCutoffs,
\* the colour test being the one of the variant
AcceptedByCutoff ==
    [c \in AlphaCutoffs |-> QualifyingPixels(variant, image, c, ColorThreshold(variant))]
        @@ << >>

\* C7: for a fixed image and colour test, the pixels accepted at a higher
\* alpha cutoff are a subset of those accepted at a lower one, so their
\* number does not increase with the cutoff.
C7_CutoffMonotone ==
    loader = "loaded" =>
        LET t == AcceptedByCutoff
        IN  \A c1, c2 \in AlphaCutoffs :
                c1 <= c2 => /\ t[c2] \subseteq t[c1]
                            /\ Cardinality(t[c2]) <= Cardinality(t[c1])

\* C7 witness: a loaded image of which the cutoff of the variant accepts some
\* pixels and a lower cutoff accepts more
C7_Witness ==
    /\ loader = "loaded" /\ HasMesh
    /\ image = DotsImage(variant)
    /\ LET t == AcceptedByCutoff
       IN  \E c \in AlphaCutoffs :
               /\ c < AlphaCutoff(variant)
               /\ t[AlphaCutoff(variant)] # {}
               /\ t[AlphaCutoff(variant)] # t[c]
               /\ t[AlphaCutoff(variant)] \subseteq t[c]

\* C8 (as claimed): the 10x10 opaque black image gives part_001 exactly 100
\* targets, ((x-5)*2, -(y-5)*2, 0) for the pixel (x,y), x and y in [0,9].
C8_BlackSquareOneTargetPerSourcePixel ==
    (variant = "tess" /\ image = BlackSquare /\ HasMesh) =>
        LET t == Geometry.targetPosition
        IN  /\ Len(t) = 3 * 100
            /\ \A x, y \in 0..9 :
                  LET k == 10 * y + x
                  IN  /\ t[3 * k + 1] = CoordDen * (x - 5) * 2
                      /\ t[3 * k + 2] = 0 - CoordDen * (y - 5) * 2
                      /\ t[3 * k + 3] = 0

\* C8 (amended): the image is first drawn on the 200 pixel wide canvas, so
\* the 10x10 opaque black image gives 200 x 200 targets, one per canvas
\* pixel (x,y), x and y in [0,199], each ((x-100)*2, -(y-100)*2, 0).
C8_BlackSquareOneTargetPerCanvasPixel ==
    (variant = "tess" /\ image = BlackSquare /\ HasMesh) =>
        LET t == Geometry.targetPosition
        IN  /\ Len(t) = 3 * 200 * 200
            /\ \A x, y \in 0..199 :
                  LET k == 200 * y + x
                  IN  /\ t[3 * k + 1] = CoordDen * (x - 100) * 2
                      /\ t[3 * k + 2] = 0 - CoordDen * (y - 100) * 2
                      /\ t[3 * k + 3] = 0

\* C8 witness: part_001 has converted the 10x10 opaque black image
C8_Witness ==
    /\ variant = "tess" /\ image = BlackSquare
    /\ loader = "loaded" /\ HasMesh
    /\ Len(Geometry.targetPosition) > 0

\* C9 (as claimed): in both image variants a failed image load is logged,
\* leaves no particle geometry, and the render loop keeps rendering every
\* frame it executes.
C9_LoadFailureLogged ==
    (variant \in ImageVariants /\ loader = "failed") =>
        /\ "error: image load failed" \in console
        /\ ~HasMesh /\ sceneMeshes = 0
        /\ renders = frames
        /\ ~unmounted => raf

\* the same without the demand for a log entry
C9_LoadFailureHarmless ==
    (variant \in ImageVariants /\ loader = "failed") =>
        /\ ~HasMesh /\ sceneMeshes = 0
        /\ renders = frames
        /\ ~unmounted => raf

\* C10 (as claimed): when the detection library is missing or the camera
\* start fails, the failure is logged, no detection callback runs and the
\* gesture state stays at 0, every frame renders, and the loading indicator
\* is never cleared.
C10_TrackingFailureLogged ==
    (~libs \/ startPromise = "rejected") =>
        /\ ~libs => "error: MediaPipe not loaded" \in console
        /\ startPromise = "rejected" => "error: camera start failed" \in console
        /\ callbacks = 0 /\ Progress = 0 /\ Target = 0
        /\ renders = frames
        /\ ~unmounted => raf
        /\ loading

\* the same without the demand for a log entry of the failed camera start
C10_TrackingFailureHarmless ==
    (~libs \/ startPromise = "rejected") =>
        /\ ~libs => "error: MediaPipe not loaded" \in console
        /\ callbacks = 0 /\ Progress = 0 /\ Target = 0
        /\ renders = frames
        /\ ~unmounted => raf
        /\ loading

\* C11: once teardown has run no frame is pending and none executes any more
\* (no render call, no new animation handle), wherever in the interleaving
\* of frames and callbacks teardown happened; and the detector and the camera
\* helper, if they were created, have been closed and stopped.
C11_TeardownStopsFramesAndReleases ==
    /\ [](unmounted => /\ ~raf
                       /\ hands # "open"
                       /\ cameraUtils # "created")
    /\ [][unmounted => /\ animationId' = animationId
                       /\ frames' = frames /\ renders' = renders
                       /\ uTime' = uTime /\ rotationY' = rotationY]_vars

\* C11 witness: teardown after frames and callbacks have run, the detector
\* closed and the camera helper stopped
C11_Witness ==
    /\ unmounted
    /\ hands = "closed" /\ cameraUtils = "stopped"
    /\ frames = MaxFrames /\ callbacks = MaxCallbacks

\* C12: createSaturnSystem makes exactly the particles with index
\* i < 0.3 * particleCount solid-body particles (stored radius 0) and all
\* others ring particles, and the stored speed is 0 exactly for the
\* solid-body particles, every ring particle having a speed above 0.
C12_SpeedZeroMarksBody ==
    (variant = "saturn" /\ HasMesh) =>
        \A i \in 0..(ParticleCount - 1) :
            LET inBody == 10 * i < 3 * ParticleCount
            IN  /\ inBody <=> particlesMesh.aRadius[i + 1] = 0
                /\ inBody <=> particlesMesh.aSpeed[i + 1] = 0
                /\ ~inBody => particlesMesh.aSpeed[i + 1] > 0

\* C12 witness: a generated field with a solid-body particle of speed 0 and
\* a ring particle of positive speed at the outer edge of the ring
C12_Witness ==
    /\ variant = "saturn" /\ HasMesh
    /\ particlesMesh.aSpeed[1] = 0
    /\ \E i \in 1..ParticleCount :
          /\ particlesMesh.aSpeed[i] > 0
          /\ particlesMesh.aRadius[i] > 64 * FUnit

\* the value in 1/Scale that is 0 up to distance lo, 1 from distance hi on
\* and linear in between (rising), or 1 minus that (falling); d, lo, hi in
\* 1/DistDen
LinearBetween(d, lo, hi, rising) ==
    IF d <= lo THEN (IF rising THEN 0 ELSE Scale)
    ELSE IF d >= hi THEN (IF rising THEN Scale ELSE 0)
    ELSE IF rising THEN RoundDiv((d - lo) * Scale, hi - lo)
    ELSE Scale + RoundDiv((lo - d) * Scale, hi - lo)

\* the distances of DistDen thousandths
Milli(n) == (n * DistDen) \div 1000

\* the distance and the target of every hand of FineHands in this variant
DistanceAndTarget ==
    [h \in FineHands |-> << Distance(h), HandValue(variant, h) >>] @@ << >>

\* the target does not fall as the distance grows (part_000), or does not
\* rise as it grows (App.tsx, part_001)
MonotoneInDistance ==
    LET t == DistanceAndTarget
    IN  \A h1, h2 \in FineHands :
            t[h1][1] <= t[h2][1] =>
                IF variant = "saturn" THEN t[h1][2] <= t[h2][2]
                ELSE t[h1][2] >= t[h2][2]

\* C13 (as claimed): in every variant a callback with a hand sets the target
\* to the value that is linear in the fingertip distance over 0.03 to 0.2
\* and saturated outside, and that value is monotone in the distance.
C13_LinearFrom003 ==
    /\ [][\A h \in FineHands :
            OnResultsHand(h) =>
                Target' = LinearBetween(Distance(h), Milli(30), Milli(200),
                                        variant = "saturn")]_vars
    /\ []MonotoneInDistance

\* C13 (amended): the same with the range each program uses: 0.05 to 0.2,
\* falling from 1 to 0, in App.tsx and part_001; 0.03 to 0.2, rising from 0
\* to 1, in part_000.
C13_LinearOverOwnRange ==
    /\ [][\A h \in FineHands :
            OnResultsHand(h) =>
                Target' = LinearBetween(Distance(h),
                                        IF variant = "saturn" THEN Milli(30) ELSE Milli(50),
                                        Milli(200), variant = "saturn")]_vars
    /\ []MonotoneInDistance

\* C13 witness: the last callback saw a hand whose distance lies inside the
\* range and left a target strictly between 0 and 1
C13_Witness ==
    /\ callbacks > 0 /\ noHandRun = 0
    /\ Target > 0 /\ Target < Scale
    /\ \E h \in FineHands :
          /\ Distance(h) > Milli(50) /\ Distance(h) < Milli(200)
          /\ Target = HandValue(variant, h)

\* a step taken by animate: only animate requests the next frame, which
\* changes the handle it keeps
FrameStep == animationId' # animationId

\* a frame leaves the smoothed progress and the target as they are
FrameOnlyReads == FrameStep => (Progress' = Progress /\ Target' = Target)

\* every detection callback takes one smoothing step towards the target
CallbackSmooths ==
    OnResults(HandInputs) =>
        Progress' = IF variant = "saturn"
                    THEN SmoothZoom(Progress, Target')
                    ELSE SmoothHand(Progress, Target')

\* every detection callback of App.tsx and part_001 that sees a hand takes
\* one smoothing step towards the target
HandCallbackSmooths ==
    (\E h \in HandInputs : OnResultsHand(h)) =>
        Progress' = SmoothHand(Progress, Target')

\* C14 (as claimed): in every variant a render frame leaves the smoothed
\* progress and the target as they are, and every detection callback takes
\* exactly one smoothing step from the stored progress towards the target.
C14_SmoothingOnlyInCallback == [][FrameOnlyReads /\ CallbackSmooths]_vars

\* C14, for App.tsx and part_001 with a hand in view: a frame changes neither
\* value, and a callback that sees a hand takes one smoothing step.
C14_SmoothingOnlyInCallbackImage ==
    [][(variant \in ImageVariants) => (FrameOnlyReads /\ HandCallbackSmooths)]_vars

\* a frame calls renderer.render once
FrameRendersOnce ==
    FrameStep => /\ frames' = Min(frames + 1, MaxFrames)
                 /\ renders' = Min(renders + 1, MaxFrames)

\* a frame that finds no particlesMesh changes nothing of the particles
IdleFrameKeepsParticles == (FrameStep /\ ~HasMesh) => UNCHANGED meshVars

\* the scan of the load callback finds no qualifying pixel
NoPixelQualifies ==
    \A k \in 0..(LoopRows(variant, image) * Width(variant) - 1) :
        ~Qualifies(Data(variant, image, k % Width(variant), k \div Width(variant)),
                   AlphaCutoff(variant), ColorThreshold(variant))

\* frames over a geometry without particles leave every array empty and the
\* frame loop running
EmptyFrameWritesNothing ==
    (variant \in ImageVariants /\ HasMesh /\ particlesMesh.blended /\ NoPixelQualifies) =>
        /\ \E geo \in { Geometry } :
              /\ geo.position = << >>
              /\ geo.initialPosition = << >> /\ geo.targetPosition = << >>
        /\ raf

\* C15: every executed frame issues exactly one render call, with or without
\* a particle buffer; without one it modifies no particle state, and with an
\* empty one it writes no coordinate and raises no error.
C15_OneRenderPerFrame ==
    /\ [][FrameRendersOnce /\ IdleFrameKeepsParticles]_vars
    /\ [](renders = frames /\ EmptyFrameWritesNothing)

\* C15 witness: a second frame has run over the empty buffer built from an
\* image without a qualifying pixel
C15_Witness ==
    /\ variant \in ImageVariants /\ HasMesh /\ particlesMesh.blended
    /\ Len(Geometry.position) = 0
    /\ rotationY = MaxFrames /\ renders = MaxFrames

\* C16: in the buffer createParticlesFromImage has just built, particle j
\* belongs to a pixel (x,y) of the working canvas that qualifies, its target
\* is ((x - width/2)*2, -(y - height/2)*2, 0), the pixels follow each other in
\* row-major order and none that qualifies is left out; every current
\* coordinate equals the initial one, and every initial component lies within
\* [-dispersionStrength, dispersionStrength].
C16_FreshBuffer ==
    (variant \in ImageVariants /\ HasMesh /\ ~particlesMesh.blended) =>
        \E geo \in { Geometry } :
        \E t \in { geo.targetPosition \o << >> }, initial \in { geo.initialPosition \o << >> } :
        \E width \in { Width(variant) }, height \in { Height(variant, image) } :
        \E rows \in { CanvasRows(variant, image) }, n \in { Len(t) \div 3 } :
            LET x(j) == (t[3 * j - 2] + CoordDen * width) \div (2 * CoordDen)
                y(j) == (height - t[3 * j - 1]) \div (2 * CoordDen)
            IN  /\ Len(t) = 3 * n
                /\ n = Cardinality(QualifyingPixels(variant, image, AlphaCutoff(variant),
                                                    ColorThreshold(variant)))
                /\ \A j \in 1..n :
                      \E xj \in { x(j) }, yj \in { y(j) } :
                          /\ xj \in 0..(width - 1)
                          /\ yj \in 0..(rows - 1)
                          /\ Qualifies(Data(variant, image, xj, yj),
                                       AlphaCutoff(variant), ColorThreshold(variant))
                          /\ 2 * t[3 * j - 2] = (2 * CoordDen * xj - CoordDen * width) * 2
                          /\ 2 * t[3 * j - 1] = 0 - (2 * CoordDen * yj - height) * 2
                          /\ t[3 * j] = 0
                          /\ j > 1 => y(j - 1) * width + x(j - 1) < yj * width + xj
                /\ geo.position = initial
                /\ \A i \in 1..Len(initial) :
                      /\ initial[i] >= 0 - CoordDen * dispersionStrength
                      /\ initial[i] <= CoordDen * dispersionStrength

\* C16 witness: a buffer of several particles just built, one of them drawn
\* on the lower face of the cube and one away from it
C16_Witness ==
    /\ variant \in ImageVariants /\ loader = "loaded"
    /\ HasMesh /\ ~particlesMesh.blended
    /\ image # BlackSquare
    /\ \E geo \in { Geometry } :
          /\ Len(geo.targetPosition) > 3
          /\ geo.targetPosition[1] # geo.targetPosition[4]
          /\ \E i \in 1..Len(geo.initialPosition) :
                geo.initialPosition[i] = 0 - CoordDen * dispersionStrength
          /\ \E i \in 1..Len(geo.initialPosition) :
                geo.initialPosition[i] > 0

\* C17 (as claimed): the scene holds at most one particle buffer at every
\* point of the session, and none once the teardown has run, whether the
\* image load completes before or after it.
C17_OneBufferNoneAfterTeardown ==
    /\ sceneMeshes <= 1
    /\ unmounted => sceneMeshes = 0

\* C17, the part about replacement: the scene never holds two buffers, and
\* it holds one exactly when particlesMesh is set.
C17_AtMostOneBuffer ==
    /\ sceneMeshes <= 1
    /\ sceneMeshes = 1 <=> HasMesh

\* the ring particle with draws d was sampled inside the gap band (48,52)
\* and its gap draw exceeded 0.2
Pushed(d) ==
    /\ SampledRadius(d.k) > 48 * RingDen /\ SampledRadius(d.k) < 52 * RingDen
    /\ d.c > 1

\* a pushed particle is stored outside the gap band, 5 further out than
\* sampled, and any other ring particle where it was sampled
GapPush(i) ==
    IF Pushed(draws[i])
    THEN /\ particlesMesh.aRadius[i] >= 53 * FUnit
         /\ particlesMesh.aRadius[i] <= 57 * FUnit
         /\ particlesMesh.aRadius[i] = F32(SampledRadius(draws[i].k) + 5 * RingDen, RingDen)
    ELSE particlesMesh.aRadius[i] = F32(SampledRadius(draws[i].k), RingDen)

\* C18 (as claimed): every ring particle's stored radius lies in [25,65),
\* also after the gap push; the weight (r - 25) / 40 of the outer ring colour
\* lies in [0,1); every pushed particle is stored outside the gap band.
C18_RingRadiusBelow65 ==
    (variant = "saturn" /\ HasMesh) =>
        \A i \in RingParticles :
            /\ particlesMesh.aRadius[i] >= 25 * FUnit
            /\ particlesMesh.aRadius[i] < 65 * FUnit
            /\ particlesMesh.aColor[i] >= 0 /\ particlesMesh.aColor[i] < FUnit
            /\ GapPush(i)

\* C18 (amended): the stored radius lies in [25,65], the upper end included:
\* radii sampled just below 65 are rounded up to 65 by the Float32Array. The
\* colour weight lies in [0,1], and every pushed particle is stored outside
\* the gap band, in [53,57].
C18_RingRadiusUpTo65 ==
    (variant = "saturn" /\ HasMesh) =>
        \A i \in RingParticles :
            /\ particlesMesh.aRadius[i] >= 25 * FUnit
            /\ particlesMesh.aRadius[i] <= 65 * FUnit
            /\ particlesMesh.aColor[i] >= 0 /\ particlesMesh.aColor[i] <= FUnit
            /\ GapPush(i)

\* C18 witness: a generated field with a ring particle that was sampled in
\* the gap band and pushed out of it
C18_Witness ==
    /\ variant = "saturn" /\ HasMesh
    /\ \E i \in RingParticles :
          /\ Pushed(draws[i])
          /\ particlesMesh.aRadius[i] > 52 * FUnit

====
